---- MODULE Spec2Model ----
(***************************************************************************)
(* Model of the Edens-Group scaffold:                                      *)
(*   - frontend/src/App.jsx: the App component (a useState counter and the *)
(*     Clerk SignedOut / SignedIn header subtrees);                        *)
(*   - the render entry point (createRoot(...).render inside StrictMode    *)
(*     and ClerkProvider);                                                 *)
(*   - the pgvector SQL migration on service_search_view.                  *)
(* The UI and the database do not interact; SpecUI and SpecDB are the      *)
(* behaviours of each.                                                     *)
(***************************************************************************)
EXTENDS Integers, Sequences, FiniteSets, TLC

VARIABLES
    \* ---- host page and identity provider (environment of the UI)
    hostIds,      \* ids of the elements of the host page (index.html)
    keyValid,     \* whether CLERK_PUBLISHABLE_KEY is a well-formed key
    session,      \* whether the identity provider holds an active session
    \* ---- the React root
    root,         \* "none" | "rendered" | "error": createRoot(...).render
    container,    \* the element the root is attached to (<<>> or <<id>>)
    tree,         \* rendered component nesting, outermost first
    userId,       \* Clerk auth context: "undefined" | "null" | "user"
    count,        \* App's useState hook state
    displayed,    \* number in the button text "count is {count}": <<>> or <<n>>
    header,       \* the header subtrees that render their children
    clicks,       \* history: onClick activations since mount
    lastRender,   \* history: hook state after each queued updater of the last render
    lastEvent,    \* history: the last thing that happened to the page
    \* ---- the database the migration runs against
    extAvailable, \* pgvector is installed on the server
    extension,    \* CREATE EXTENSION vector has taken effect
    relKind,      \* service_search_view: "none" | "table" | "view"
    column,       \* typmod of column embedding: <<>> (absent) or <<dim>>
    index,        \* idx_embedding_cosine: <<>> or <<[method, col, ops]>>
    rows,         \* row id -> embedding value: <<>> (NULL) or <<dim>>
    pc,           \* position in the running migration, 0 when idle
    log,          \* statements executed by the current/last run, with outcome
    history,      \* history: per completed run, the schema it left and what failed
    writeResult,  \* the last write of an embedding and its outcome
    colCreated,   \* history: times column embedding was created
    idxCreated    \* history: times idx_embedding_cosine was created

uiVars == <<hostIds, keyValid, session, root, container, tree, userId, count,
            displayed, header, clicks, lastRender, lastEvent>>
dbVars == <<extAvailable, extension, relKind, column, index, rows, pc, log,
            history, writeResult, colCreated, idxCreated>>
vars == <<uiVars, dbVars>>

\* ---- bounds
MaxClicks == 4
MaxBatch == 2
MaxRuns == 3
NumRows == 2

(***************************************************************************)
(* The render entry point and App (UI)                                     *)
(***************************************************************************)

\* mutant: a lookup that falls back to the page body instead of null
getElementByIdOrBody(id) == IF id \in hostIds THEN <<id>> ELSE <<"body">>

\* document.getElementById(id): the element, or null (<<>>)
getElementById(id) == IF id \in hostIds THEN <<id>> ELSE <<>>

\* useState(0)
InitialCount == 0

\* mutant: an updater that returns its argument
UpdaterKeep(c) == c

\* the functional updater (count) => count + 1
Updater(c) == c + 1

\* StrictMode invokes a pure updater twice and keeps one result
StrictInvoke(c) ==
    LET discarded == Updater(c)
        kept == Updater(c)
    IN kept

\* mutant: setCount(count + 1), every queued update computed from the count
\* read at render time
ProcessQueueStale(n, c) == [i \in 1..n |-> c + 1]

\* React processes the hook's update queue in order, each updater receiving
\* the state left by the previous one; the result lists the state after each
RECURSIVE ProcessQueue(_, _)
ProcessQueue(n, c) ==
    IF n = 0 THEN <<>>
    ELSE <<StrictInvoke(c)>> \o ProcessQueue(n - 1, StrictInvoke(c))

\* <SignedOut>: children only when the auth context has loaded with no user
SignedOut(uid) == uid = "null"

\* mutant: a SignedIn that treats a context still loading as signed in
SignedInUnlessNull(uid) == uid # "null"

\* <SignedIn>: children only when the auth context holds a user
SignedIn(uid) == uid \notin {"undefined", "null"}

\* the header JSX of App
Header(uid) ==
    (IF SignedOut(uid) THEN {"SignedOut"} ELSE {})
    \cup (IF SignedIn(uid) THEN {"SignedIn"} ELSE {})

\* the button text of App
ButtonText(c) == <<c>>

Mounted == root = "rendered"

\* the state of a freshly loaded page, before the entry point has run
PageLoad ==
    /\ root' = "none"
    /\ container' = <<>>
    /\ tree' = <<>>
    /\ userId' = "undefined"
    /\ count' = InitialCount
    /\ displayed' = <<>>
    /\ header' = {}
    /\ clicks' = 0
    /\ lastRender' = <<>>
    /\ lastEvent' = "load"

InitUI ==
    /\ hostIds \in {{}, {"root"}, {"app"}, {"root", "app"}}
    /\ keyValid \in BOOLEAN
    /\ session \in BOOLEAN
    /\ root = "none"
    /\ container = <<>>
    /\ tree = <<>>
    /\ userId = "undefined"
    /\ count = InitialCount
    /\ displayed = <<>>
    /\ header = {}
    /\ clicks = 0
    /\ lastRender = <<>>
    /\ lastEvent = "load"

\* createRoot(document.getElementById("root")).render(<StrictMode>...)
\* createRoot throws on a null container; ClerkProvider throws on a bad key
Mount ==
    /\ root = "none"
    /\ LET el == getElementById("root") IN
        IF el = <<>> \/ ~keyValid
        THEN /\ root' = "error"
             /\ UNCHANGED <<container, tree, userId, count, displayed, header>>
        ELSE /\ root' = "rendered"
             /\ container' = el
             /\ tree' = <<"StrictMode", "ClerkProvider", "App">>
             /\ userId' = "undefined"
             /\ count' = InitialCount
             /\ displayed' = ButtonText(InitialCount)
             /\ header' = Header("undefined")
    /\ lastEvent' = "mount"
    /\ UNCHANGED <<hostIds, keyValid, session, clicks, lastRender>>
    /\ UNCHANGED dbVars

\* the provider finishes loading and publishes the session to its context
ClerkLoaded ==
    /\ Mounted
    /\ userId = "undefined"
    /\ userId' = IF session THEN "user" ELSE "null"
    /\ header' = Header(userId')
    /\ displayed' = ButtonText(count)
    /\ lastEvent' = "loaded"
    /\ UNCHANGED <<hostIds, keyValid, session, root, container, tree, count,
                   clicks, lastRender>>
    /\ UNCHANGED dbVars

\* one event dispatch in which onClick runs k times: each run enqueues the
\* updater, and React re-renders App once at the end of the dispatch
Click(k) ==
    /\ Mounted
    /\ clicks + k <= MaxClicks
    /\ clicks' = clicks + k
    /\ lastRender' = ProcessQueue(k, count)
    /\ count' = lastRender'[k]
    /\ displayed' = ButtonText(count')
    /\ header' = Header(userId)
    /\ lastEvent' = "click"
    /\ UNCHANGED <<hostIds, keyValid, session, root, container, tree, userId>>
    /\ UNCHANGED dbVars

\* mutant: App remounted on every change of the auth context (its hook
\* state starts over)
AuthChangeRemount(uid, reload) ==
    IF reload
    THEN PageLoad
    ELSE /\ userId' = uid
         /\ header' = Header(uid)
         /\ count' = InitialCount
         /\ displayed' = ButtonText(InitialCount)
         /\ clicks' = 0
         /\ lastEvent' = "auth"
         /\ UNCHANGED <<root, container, tree, lastRender>>

\* the auth context changes to uid; with reload the provider navigates by a
\* full page load, otherwise the mounted tree re-renders in place
AuthChange(uid, reload) ==
    IF reload
    THEN PageLoad
    ELSE /\ userId' = uid
         /\ header' = Header(uid)
         /\ displayed' = ButtonText(count)
         /\ lastEvent' = "auth"
         /\ UNCHANGED <<root, container, tree, count, clicks, lastRender>>

\* <SignInButton mode="modal" />
SignInButton ==
    /\ Mounted
    /\ "SignedOut" \in header
    /\ session' = TRUE
    /\ \E reload \in BOOLEAN : AuthChange("user", reload)
    /\ UNCHANGED <<hostIds, keyValid>>
    /\ UNCHANGED dbVars

\* <SignUpButton mode="modal" />
SignUpButton ==
    /\ Mounted
    /\ "SignedOut" \in header
    /\ session' = TRUE
    /\ \E reload \in BOOLEAN : AuthChange("user", reload)
    /\ UNCHANGED <<hostIds, keyValid>>
    /\ UNCHANGED dbVars

\* <UserButton /> sign-out, afterSignOutUrl="/"
UserButton ==
    /\ Mounted
    /\ "SignedIn" \in header
    /\ session' = FALSE
    /\ \E reload \in BOOLEAN : AuthChange("null", reload)
    /\ UNCHANGED <<hostIds, keyValid>>
    /\ UNCHANGED dbVars

NextUI ==
    \/ Mount
    \/ ClerkLoaded
    \/ \E k \in 1..MaxBatch : Click(k)
    \/ SignInButton
    \/ SignUpButton
    \/ UserButton

(***************************************************************************)
(* The SQL migration (database)                                            *)
(***************************************************************************)

\* embedding vector(1536)
EmbeddingDim == 1536

\* mutant: the index created before the column
MigrationReordered == <<"CREATE EXTENSION", "CREATE INDEX", "ADD COLUMN">>

\* the statements of the migration file, in file order
Migration == <<"CREATE EXTENSION", "ADD COLUMN", "CREATE INDEX">>

RowIds == 1..NumRows

\* an embedding value: NULL (<<>>) or a vector, represented by its dimension
Values == {<<>>, <<768>>, <<EmbeddingDim>>, <<3072>>}

Schema == [extension |-> extension, column |-> column, index |-> index]

\* CREATE EXTENSION IF NOT EXISTS vector
CreateExtensionIfNotExists(installed) ==
    IF installed THEN [ok |-> TRUE, installed |-> TRUE]
    ELSE IF extAvailable THEN [ok |-> TRUE, installed |-> TRUE]
    ELSE [ok |-> FALSE, installed |-> FALSE]

\* mutant: ADD COLUMN without IF NOT EXISTS (an existing column is an error)
AddColumnUnguarded(col) ==
    IF relKind # "table" \/ ~extension \/ col # <<>>
    THEN [ok |-> FALSE, col |-> col, created |-> FALSE]
    ELSE [ok |-> TRUE, col |-> <<EmbeddingDim>>, created |-> TRUE]

\* mutant: the column dropped and added again by every run
AddColumnRecreate(col) ==
    IF relKind # "table" \/ ~extension
    THEN [ok |-> FALSE, col |-> col, created |-> FALSE]
    ELSE [ok |-> TRUE, col |-> <<EmbeddingDim>>, created |-> TRUE]

\* ALTER TABLE service_search_view ADD COLUMN IF NOT EXISTS embedding vector(1536)
\* fails unless the relation is a table and type vector exists; skips when
\* the column is already there
AddColumnIfNotExists(col) ==
    IF relKind # "table" \/ ~extension
    THEN [ok |-> FALSE, col |-> col, created |-> FALSE]
    ELSE IF col # <<>> THEN [ok |-> TRUE, col |-> col, created |-> FALSE]
    ELSE [ok |-> TRUE, col |-> <<EmbeddingDim>>, created |-> TRUE]

\* mutant: CREATE INDEX without IF NOT EXISTS (an existing index is an error)
CreateIndexUnguarded(idx) ==
    IF relKind # "table" \/ ~extension \/ column = <<>> \/ idx # <<>>
    THEN [ok |-> FALSE, idx |-> idx, created |-> FALSE]
    ELSE [ok |-> TRUE,
          idx |-> <<[method |-> "hnsw", col |-> "embedding",
                     ops |-> "vector_cosine_ops"]>>,
          created |-> TRUE]

\* CREATE INDEX IF NOT EXISTS idx_embedding_cosine ON service_search_view
\* USING hnsw (embedding vector_cosine_ops)
\* fails unless the relation is a table, access method hnsw exists and the
\* column exists; skips when the index is already there
CreateIndexIfNotExists(idx) ==
    IF relKind # "table" \/ ~extension \/ column = <<>>
    THEN [ok |-> FALSE, idx |-> idx, created |-> FALSE]
    ELSE IF idx # <<>> THEN [ok |-> TRUE, idx |-> idx, created |-> FALSE]
    ELSE [ok |-> TRUE,
          idx |-> <<[method |-> "hnsw", col |-> "embedding",
                     ops |-> "vector_cosine_ops"]>>,
          created |-> TRUE]

\* mutant: a column declared vector, with no dimension
AcceptsAnyDim(col, v) == TRUE

\* the typmod check of a vector(n) column: NULL, or exactly n dimensions
Accepts(col, v) == v = <<>> \/ v[1] = col[1]

Failed(l) == {l[i].stmt : i \in {j \in 1..Len(l) : ~l[j].ok}}

InitDB ==
    /\ extAvailable \in BOOLEAN
    /\ extension \in {FALSE, extAvailable}
    /\ relKind \in {"none", "table", "view"}
    /\ column = <<>>
    /\ index = <<>>
    /\ rows = [r \in RowIds |-> <<>>]
    /\ pc = 0
    /\ log = <<>>
    /\ history = <<>>
    /\ writeResult = <<>>
    /\ colCreated = 0
    /\ idxCreated = 0

\* the migration file is submitted for execution
StartRun ==
    /\ pc = 0
    /\ Len(history) < MaxRuns
    /\ pc' = 1
    /\ log' = <<>>
    /\ UNCHANGED <<extAvailable, extension, relKind, column, index, rows,
                   history, writeResult, colCreated, idxCreated>>
    /\ UNCHANGED uiVars

\* Each statement commits on its own (the file opens no transaction). After
\* an error the client either goes on with the next statement or stops.
Advance(stmt, ok) ==
    /\ log' = Append(log, [stmt |-> stmt, ok |-> ok])
    /\ \E stop \in {FALSE, ~ok} :
        IF stop \/ pc = Len(Migration)
        THEN /\ pc' = 0
             /\ history' = Append(history, [schema |-> Schema', failed |-> Failed(log')])
        ELSE /\ pc' = pc + 1
             /\ UNCHANGED history

CreateExtension ==
    /\ pc \in 1..Len(Migration)
    /\ Migration[pc] = "CREATE EXTENSION"
    /\ LET res == CreateExtensionIfNotExists(extension) IN
        /\ extension' = res.installed
        /\ UNCHANGED <<extAvailable, relKind, column, index, rows, writeResult,
                       colCreated, idxCreated>>
        /\ Advance("CREATE EXTENSION", res.ok)
    /\ UNCHANGED uiVars

AddColumn ==
    /\ pc \in 1..Len(Migration)
    /\ Migration[pc] = "ADD COLUMN"
    /\ LET res == AddColumnIfNotExists(column) IN
        /\ column' = res.col
        /\ colCreated' = IF res.created THEN colCreated + 1 ELSE colCreated
        /\ rows' = IF res.created THEN [r \in RowIds |-> <<>>] ELSE rows
        /\ UNCHANGED <<extAvailable, extension, relKind, index, writeResult,
                       idxCreated>>
        /\ Advance("ADD COLUMN", res.ok)
    /\ UNCHANGED uiVars

CreateIndex ==
    /\ pc \in 1..Len(Migration)
    /\ Migration[pc] = "CREATE INDEX"
    /\ LET res == CreateIndexIfNotExists(index) IN
        /\ index' = res.idx
        /\ idxCreated' = IF res.created THEN idxCreated + 1 ELSE idxCreated
        /\ UNCHANGED <<extAvailable, extension, relKind, column, rows,
                       writeResult, colCreated>>
        /\ Advance("CREATE INDEX", res.ok)
    /\ UNCHANGED uiVars

\* a client sets the embedding of row r to v (population happens outside
\* the migration); the column type decides whether the write is accepted
WriteEmbedding(r, v) ==
    /\ relKind = "table"
    /\ LET ok == column # <<>> /\ Accepts(column, v) IN
        /\ writeResult' = <<[row |-> r, value |-> v, ok |-> ok]>>
        /\ rows' = IF ok THEN [rows EXCEPT ![r] = v] ELSE rows
    /\ UNCHANGED <<extAvailable, extension, relKind, column, index, pc, log,
                   history, colCreated, idxCreated>>
    /\ UNCHANGED uiVars

NextDB ==
    \/ StartRun
    \/ CreateExtension
    \/ AddColumn
    \/ CreateIndex
    \/ \E r \in RowIds, v \in Values : WriteEmbedding(r, v)

(***************************************************************************)
(* Specifications                                                          *)
(***************************************************************************)

Init == InitUI /\ InitDB

SpecUI == Init /\ [][NextUI]_vars

SpecDB == Init /\ [][NextDB]_vars

(***************************************************************************)
(* Properties of the UI (checked under SpecUI)                             *)
(***************************************************************************)

\* C1: while App is mounted the number shown on the button equals the number
\* of activations of onClick since mount, and it is 0 before any activation.
C1_DisplayedEqualsClicks ==
    Mounted => /\ displayed = <<clicks>>
               /\ count = clicks
               /\ (clicks = 0 => displayed = <<0>>)

C1_Witness == Mounted /\ clicks = 3 /\ displayed = <<3>> /\ lastEvent = "click"

\* C2 as stated: while App is mounted exactly one of the two header subtrees
\* is visible.
C2_ExactlyOneAlways == Mounted => Cardinality(header) = 1

\* C2 amended: while App is mounted the two header subtrees are never both
\* visible; which one is visible is decided by the auth context alone
\* (SignedIn for a user, SignedOut for none); exactly one is visible once the
\* identity provider has loaded, and neither while it is still loading.
C2_AtMostOneAndOneOnceLoaded ==
    Mounted => /\ Cardinality(header) <= 1
               /\ ("SignedIn" \in header <=> userId = "user")
               /\ ("SignedOut" \in header <=> userId = "null")
               /\ (userId # "undefined" => Cardinality(header) = 1)
               /\ (userId = "undefined" => header = {})

C2_Witness == Mounted /\ header = {"SignedIn"} /\ userId = "user" /\ clicks > 0

\* C8: a rendered root is attached to the element with id "root" and holds
\* App inside ClerkProvider; when the host page has no such element, mounting
\* ends in an error, nothing is ever rendered, and the error is final.
C8_MountIntoRootOrFail ==
    /\ [](Mounted => /\ container = <<"root">>
                     /\ "root" \in hostIds
                     /\ \E i, j \in 1..Len(tree) :
                            i < j /\ tree[i] = "ClerkProvider" /\ tree[j] = "App")
    /\ []("root" \notin hostIds =>
            /\ root \in {"none", "error"}
            /\ tree = <<>>
            /\ container = <<>>
            /\ displayed = <<>>
            /\ (lastEvent = "mount" => root = "error"))
    /\ [][root = "error" => root' = "error"]_vars

C8_Witness == root = "error" /\ "root" \notin hostIds /\ keyValid /\ tree = <<>>

\* C9: a dispatch that enqueues k updaters raises the counter by exactly k,
\* the queued updaters take it through count+1 .. count+k in order (StrictMode
\* adds nothing), and the counter of a mounted App never decreases.
C9_NoLostUpdate ==
    /\ [][lastEvent' = "click" /\ clicks' # clicks =>
            LET k == clicks' - clicks IN
                /\ count' = count + k
                /\ Len(lastRender') = k
                /\ \A i \in 1..k : lastRender'[i] = count + i]_vars
    /\ [][Mounted /\ Mounted' => count' >= count]_vars

C9_Witness ==
    Mounted /\ lastEvent = "click" /\ Len(lastRender) = 2 /\ count = 4
    /\ lastRender = <<3, 4>>

\* C10: a click leaves the auth context and the visible header subtree
\* unchanged, and a change of the auth context that keeps App mounted leaves
\* the counter and its displayed value unchanged.
C10_CounterAndAuthIndependent ==
    /\ [][lastEvent' = "click" /\ clicks' # clicks =>
            header' = header /\ userId' = userId /\ session' = session]_vars
    /\ [][userId' # userId /\ Mounted /\ Mounted' =>
            count' = count /\ displayed' = displayed /\ clicks' = clicks]_vars

C10_Witness ==
    Mounted /\ lastEvent = "auth" /\ userId = "null" /\ count = 2
    /\ displayed = <<2>>

(***************************************************************************)
(* Properties of the migration (checked under SpecDB)                      *)
(***************************************************************************)

CanonicalOrder == <<"CREATE EXTENSION", "ADD COLUMN", "CREATE INDEX">>

\* C3 as stated: every run leaves the schema the first run left, and no run
\* after the first raises an error.
C3_IdempotentNoLaterError ==
    \A i \in 1..Len(history) :
        /\ history[i].schema = history[1].schema
        /\ (i >= 2 => history[i].failed = {})

\* C3 amended: every run leaves the schema the first run left, and a run
\* after the first raises an error exactly when the first run raised one (no
\* run after an error-free first run raises an error).
C3_IdempotentSameOutcome ==
    \A i \in 1..Len(history) :
        /\ history[i].schema = history[1].schema
        /\ (history[i].failed = {} <=> history[1].failed = {})

C3_Witness ==
    /\ Len(history) >= 3
    /\ history[1].failed = {}
    /\ history[3].failed = {}
    /\ history[3].schema.index # <<>>

\* C4 as stated: two runs against a database without service_search_view
\* both complete with no error and leave the same schema.
C4_EmptyDatabaseNoError ==
    (relKind = "none" /\ Len(history) >= 2) =>
        /\ history[1].failed = {}
        /\ history[2].failed = {}
        /\ history[2].schema = history[1].schema

\* C4 amended: two runs against a database in which service_search_view is a
\* table and pgvector is available both complete with no error and leave the
\* same schema (extension, column and index present); against a database
\* without the relation every run raises an error (at ADD COLUMN, when
\* pgvector is available) and creates neither column nor index.
C4_TwoRunsOnExistingTable ==
    /\ (relKind = "table" /\ extAvailable /\ Len(history) >= 2) =>
        /\ history[1].failed = {}
        /\ history[2].failed = {}
        /\ history[2].schema = history[1].schema
        /\ history[2].schema.extension
        /\ history[2].schema.column = <<1536>>
        /\ history[2].schema.index # <<>>
    /\ relKind = "none" =>
        \A i \in 1..Len(history) :
            /\ history[i].failed # {}
            /\ (extAvailable => "ADD COLUMN" \in history[i].failed)
            /\ history[i].schema.column = <<>>
            /\ history[i].schema.index = <<>>

C4_Witness ==
    /\ relKind = "table"
    /\ Len(history) = 2
    /\ history[1].failed = {}
    /\ history[2].failed = {}
    /\ index # <<>>

\* C5: once the column exists every populated embedding has exactly 1536
\* dimensions; a write of a vector of another dimension is rejected and
\* leaves the rows unchanged; a write of NULL or of a 1536-dimension vector
\* is accepted and stored.
C5_EmbeddingDimension ==
    /\ [](\A r \in RowIds : rows[r] # <<>> => column # <<>> /\ rows[r] = <<1536>>)
    /\ [][writeResult' # writeResult =>
            LET w == writeResult'[1] IN
                /\ (w.value # <<>> /\ w.value # <<1536>>) =>
                        (~w.ok /\ rows' = rows)
                /\ (column # <<>> /\ w.value \in {<<>>, <<1536>>}) =>
                        (w.ok /\ rows' = [rows EXCEPT ![w.row] = w.value])]_vars

C5_Witness ==
    /\ column # <<>>
    /\ writeResult # <<>>
    /\ writeResult[1].value = <<768>>
    /\ ~writeResult[1].ok
    /\ writeResult[1].row = 1
    /\ rows[1] = <<1536>>
    /\ rows[2] = <<>>

\* C6: over any sequence of runs column embedding and idx_embedding_cosine
\* are each created at most once; a statement of the migration that finds the
\* column (index) present leaves it, and the stored embeddings, as they are.
C6_CreatedAtMostOnce ==
    /\ [](colCreated <= 1 /\ idxCreated <= 1)
    /\ [][column # <<>> => column' = column]_vars
    /\ [][index # <<>> => index' = index]_vars
    /\ [][column # <<>> /\ log' # log => rows' = rows]_vars

C6_Witness ==
    /\ Len(history) >= 2
    /\ colCreated = 1
    /\ idxCreated = 1
    /\ \E r \in RowIds : rows[r] # <<>>

\* C7: a run executes the statements in file order; a statement that fails
\* changes nothing and undoes nothing (what earlier statements created
\* stays); the index never exists without the column and the extension.
C7_OrderNoRollback ==
    /\ [](\A i \in 1..Len(log) : log[i].stmt = CanonicalOrder[i])
    /\ [](pc # 0 => Len(log) = pc - 1)
    /\ [][(Len(log') > Len(log) /\ ~log'[Len(log')].ok) => Schema' = Schema]_vars
    /\ [](\A i \in 1..Len(log) :
            /\ (log[i].stmt = "CREATE EXTENSION" /\ log[i].ok) => extension
            /\ (log[i].stmt = "ADD COLUMN" /\ log[i].ok) => column # <<>>)
    /\ [](index # <<>> => column # <<>> /\ extension)

C7_Witness ==
    /\ relKind = "none"
    /\ Len(log) >= 2
    /\ log[1].ok
    /\ ~log[2].ok
    /\ extension
    /\ history = <<>>

====
